---- MODULE Spec2Model ----
(***************************************************************************)
(* Robot-Terrain: a keyboard-driven robot walking over terrain.            *)
(*   variant "tiled"  : src/main.js           (3x3 window of terrain tiles,*)
(*                      camera-relative movement, ground by ray cast)      *)
(*   variant "closed" : src/unnamed/part_000  (closed-form height map,     *)
(*                      world-axis movement)                               *)
(* Both variants share createGUI, fadeToAction, restoreState and the key   *)
(* handlers.  Lengths are fixed-point integers, 1 unit = 0.00001 world     *)
(* units, so moveSpeed 0.1 is 10000 units.  Time is counted in frames.     *)
(***************************************************************************)
EXTENDS Integers, Sequences, FiniteSets, TLC

VARIABLES
    variant,          \* which of the two programs runs
    loads,            \* loader state of the two assets: [robot, terrain]
    model,            \* TRUE once the robot asset is loaded (`model` is set)
    terrainTiles,     \* tiled: sequence of tile positions [x, z]
    spawnTimer,       \* tiled: the 500 ms setTimeout: "none", "pending", "done"
    keys,             \* the keys record
    apiState,         \* api.state, the panel's state selector
    currentMovement,
    activeAction,     \* clip name, or "none" while undefined
    previousAction,
    acts,             \* the AnimationAction of every clip
    listener,         \* how often restoreState is registered for 'finished'
    pos,              \* model.position [x, y, z]
    rot,              \* model orientation about the vertical axis, degrees
    camDir,           \* tiled: camera heading read by the last moving frame
    hist              \* history of the handler that ran last (not program state)

vars == <<variant, loads, model, terrainTiles, spawnTimer, keys, apiState,
          currentMovement, activeAction, previousAction, acts, listener,
          pos, rot, camDir, hist>>

----------------------------------------------------------------------------
(* Bounds of the model *)

\* frames a LoopOnce / looping clip lasts
ClipTicks == 2
\* frames a 0.2 s crossfade lasts
FadeShort == 1
\* frames a 0.5 s crossfade lasts
FadeLong == 2
\* frames in which the actor moves, in one behaviour
MaxSteps == 2
\* input events (keys, panel) in one behaviour
MaxEvents == 2

----------------------------------------------------------------------------
(* Program constants *)

states == <<"Idle", "Walking", "Running", "Dance", "Death", "Sitting", "Standing">>
emotes == <<"Jump", "Yes", "No", "Wave", "Punch", "ThumbsUp">>

Range(s) == {s[i] : i \in 1..Len(s)}

\* the clips of the loaded asset that the model follows
Clips == {"Idle", "Walking", "Running", "Death", "Jump", "Wave"}
StateNames == Range(states) \cap Clips
EmoteNames == Range(emotes) \cap Clips

\* states.indexOf(name), 0-based, -1 when absent
IndexOf(seq, name) ==
    IF name \in Range(seq)
    THEN (CHOOSE i \in 1..Len(seq) : seq[i] = name) - 1
    ELSE -1

\* clips that createGUI makes LoopOnce with clampWhenFinished
IsOnce(name) == name \in Range(emotes) \/ IndexOf(states, name) >= 4

\* moveSpeed = 0.1
moveSpeed == 10000

KeyIds == {"w", "a", "s", "d", "shift", " ", "x"}

NoKeys == [w |-> FALSE, a |-> FALSE, s |-> FALSE, d |-> FALSE, shift |-> FALSE]

----------------------------------------------------------------------------
(* AnimationAction and AnimationMixer, as the program uses them *)

\* an action that clipAction() has created and nothing has played yet
FreshAction ==
    [played |-> FALSE, enabled |-> TRUE, paused |-> FALSE, time |-> 0,
     fade |-> "none", left |-> 0]

\* action.fadeOut(d) / fadeIn(d): a weight ramp over d frames
ScheduleFading(a, kind, d) == [a EXCEPT !.fade = kind, !.left = d]

\* action.reset().setEffectiveTimeScale(1).setEffectiveWeight(1).fadeIn(d).play()
ResetFadeInPlay(a, d) ==
    ScheduleFading([a EXCEPT !.played = TRUE, !.enabled = TRUE,
                             !.paused = FALSE, !.time = 0], "in", d)

\* the animation state fadeToAction reads and writes
Anim(active, previous, as) == [active |-> active, previous |-> previous, acts |-> as]

\* fadeToAction without its early return
FadeToActionAlways(an, name, d) ==
    [active   |-> name,
     previous |-> an.active,
     acts     |-> [c \in Clips |->
                     IF c = name THEN ResetFadeInPlay(an.acts[c], d)
                     ELSE IF c = an.active THEN ScheduleFading(an.acts[c], "out", d)
                     ELSE an.acts[c]]]

FadeToAction(an, name, d) ==
    IF an.active = name THEN an
    ELSE [active   |-> name,
          previous |-> an.active,
          acts     |-> [c \in Clips |->
                          IF c = name THEN ResetFadeInPlay(an.acts[c], d)
                          ELSE IF c = an.active
                               THEN ScheduleFading(an.acts[c], "out", d)
                               ELSE an.acts[c]]]

\* the effective weight of an action, in {0, 1, "ramp"}
Weight(a) ==
    IF ~a.played \/ ~a.enabled THEN "0"
    ELSE IF a.fade = "none" THEN "1"
    ELSE "ramp"

\* AnimationAction._updateTime for one frame.  The time of a LoopOnce clip
\* runs up to the clip's end, where the action is clamped (paused); the phase
\* of a looping clip is not followed, its time stays as reset() left it.
UpdateTime(name, a) ==
    IF ~a.played \/ ~a.enabled \/ a.paused THEN a
    ELSE IF IsOnce(name)
         THEN IF a.time + 1 >= ClipTicks
              THEN [a EXCEPT !.time = ClipTicks, !.paused = TRUE]
              ELSE [a EXCEPT !.time = a.time + 1]
         ELSE a

\* the actions whose 'finished' event this frame dispatches
Finishing(as) ==
    {c \in Clips : /\ as[c].played /\ as[c].enabled /\ ~as[c].paused
                   /\ IsOnce(c) /\ as[c].time + 1 >= ClipTicks}

\* AnimationAction._updateWeight for one frame
UpdateWeight(a) ==
    IF ~a.played \/ ~a.enabled \/ a.fade = "none" THEN a
    ELSE IF a.left > 1 THEN [a EXCEPT !.left = a.left - 1]
    ELSE [a EXCEPT !.fade = "none", !.left = 0, !.enabled = (a.fade = "in")]

----------------------------------------------------------------------------
(* Geometry shared by the two variants *)

Abs(n) == IF n < 0 THEN -n ELSE n
Sign(n) == IF n < 0 THEN -1 ELSE IF n > 0 THEN 1 ELSE 0

\* Vector3.normalize() of a horizontal vector with components in -2..2 that is
\* not zero; the result is in units of 1/10000 (0.7071 for a diagonal)
Normalize(v) ==
    IF v.x # 0 /\ v.z # 0
    THEN [x |-> Sign(v.x) * 7071, z |-> Sign(v.z) * 7071]
    ELSE [x |-> Sign(v.x) * 10000, z |-> Sign(v.z) * 10000]

\* Math.atan2(x, z) of a unit direction, in degrees
Atan2Deg(n) ==
    CASE n.x = 0 /\ n.z > 0 -> 0
      [] n.x > 0 /\ n.z > 0 -> 45
      [] n.x > 0 /\ n.z = 0 -> 90
      [] n.x > 0 /\ n.z < 0 -> 135
      [] n.x = 0 /\ n.z < 0 -> 180
      [] n.x < 0 /\ n.z < 0 -> -135
      [] n.x < 0 /\ n.z = 0 -> -90
      [] n.x < 0 /\ n.z > 0 -> -45

\* keys.shift ? moveSpeed * 3 : moveSpeed
SpeedTripled(k) == IF k.shift THEN moveSpeed * 3 ELSE moveSpeed

\* keys.shift ? moveSpeed * 2 : moveSpeed
Speed(k) == IF k.shift THEN moveSpeed * 2 ELSE moveSpeed

\* one component of direction * speed * dt, dt = 1/60 s
ScaledByDt(c, speed) == ((c * speed) \div 10000) \div 60

\* one component of direction * speed
Scaled(c, speed) == (c * speed) \div 10000

\* the locomotion branch at the end of updateRobotMovement, dropping the
\* comparison with 'Idle'
LocomotionNoIdle(moving, k, cm, an) ==
    IF moving
    THEN IF k.shift /\ cm # "Running"
         THEN [cm |-> "Running", an |-> FadeToAction(an, "Running", FadeShort), calls |-> 1]
         ELSE IF ~k.shift /\ cm # "Walking"
              THEN [cm |-> "Walking", an |-> FadeToAction(an, "Walking", FadeShort), calls |-> 1]
              ELSE [cm |-> cm, an |-> an, calls |-> 0]
    ELSE [cm |-> cm, an |-> an, calls |-> 0]

\* the locomotion branch without the comparisons with currentMovement: every
\* tick calls fadeToAction with the state the keys stand for
LocomotionEveryTick(moving, k, cm, an) ==
    LET st == IF moving THEN (IF k.shift THEN "Running" ELSE "Walking") ELSE "Idle"
    IN  [cm |-> st, an |-> FadeToAction(an, st, FadeShort), calls |-> 1]

\* the locomotion branch at the end of updateRobotMovement: the new
\* currentMovement, the animation state and the number of fadeToAction calls
Locomotion(moving, k, cm, an) ==
    IF moving
    THEN IF k.shift /\ cm # "Running"
         THEN [cm |-> "Running", an |-> FadeToAction(an, "Running", FadeShort), calls |-> 1]
         ELSE IF ~k.shift /\ cm # "Walking"
              THEN [cm |-> "Walking", an |-> FadeToAction(an, "Walking", FadeShort), calls |-> 1]
              ELSE [cm |-> cm, an |-> an, calls |-> 0]
    ELSE IF cm # "Idle"
         THEN [cm |-> "Idle", an |-> FadeToAction(an, "Idle", FadeShort), calls |-> 1]
         ELSE [cm |-> cm, an |-> an, calls |-> 0]

----------------------------------------------------------------------------
(* Closed-form variant: terrain height and movement *)

TERRAIN_HEIGHT == 5

\* an angle in 1/1000 rad brought into -1571..1571 (a quarter turn either
\* way) without changing its sine
FoldAngle(a) ==
    LET r == ((a + 3142) % 6284) - 3142
    IN  IF r > 1571 THEN 3142 - r ELSE IF r < -1571 THEN -3142 - r ELSE r

\* Math.sin of an angle given in 1/1000 rad, result in 1/1000 (Taylor, 4 terms)
Sin(a) ==
    LET f  == FoldAngle(a)
        f2 == (f * f) \div 1000
        f3 == (f2 * f) \div 1000
        f5 == (f3 * f2) \div 1000
        f7 == (f5 * f2) \div 1000
    IN  f - (f3 \div 6) + (f5 \div 120) - (f7 \div 5040)

\* Math.cos of an angle given in 1/1000 rad, result in 1/1000
Cos(a) == Sin(a + 1571)

\* getTerrainHeight(x, z), x and z in units, result in units
getTerrainHeight(x, z) ==
    LET ax  == x \div 1000             \* x * 0.1 in 1/1000 rad
        az  == z \div 1000
        axz == (2 * x + 2 * z) \div 1000  \* x * 0.2 + z * 0.2
        h1  == ((Sin(ax) * Cos(az)) \div 1000) * TERRAIN_HEIGHT
        h2  == (Sin(axz) * TERRAIN_HEIGHT) \div 2
    IN  (h1 + h2) * 100

\* moveDirection with `else if` between the w and s lines
MoveDirectionElseIf(k) ==
    [x |-> (IF k.d THEN 1 ELSE 0) - (IF k.a THEN 1 ELSE 0),
     z |-> IF k.s THEN 1 ELSE IF k.w THEN -1 ELSE 0]

\* moveDirection of the closed-form variant, before normalize()
MoveDirection(k) ==
    [x |-> (IF k.d THEN 1 ELSE 0) - (IF k.a THEN 1 ELSE 0),
     z |-> (IF k.s THEN 1 ELSE 0) - (IF k.w THEN 1 ELSE 0)]

\* the position written by a moving tick that keeps the old height
NewPosNoSnap(p, n, speed) ==
    [x |-> p.x + Scaled(n.x, speed), y |-> p.y, z |-> p.z + Scaled(n.z, speed)]

\* the position written by a moving tick of the closed-form variant
NewPosClosed(p, n, speed) ==
    LET nx == p.x + Scaled(n.x, speed)
        nz == p.z + Scaled(n.z, speed)
    IN  [x |-> nx, y |-> getTerrainHeight(nx, nz), z |-> nz]
----------------------------------------------------------------------------
(* Tiled variant: the tile window, the ground ray and movement *)

tileSize == 20
scaleFactor == 5
tileRepeat == 3

\* tileSize * scaleFactor * 0.99, in units
Spacing == tileSize * scaleFactor * 99000

\* half the side of a scaled tile, in units
HalfTile == (tileSize * scaleFactor * 100000) \div 2

\* height of the ray origin (y = 20), in units
RayTop == 20 * 100000

\* Math.round(p / spacing): halves round up
RoundDiv(p, d) == (2 * p + d) \div (2 * d)

\* the grid slot of the tile with 0-based index k: i is the outer loop
SlotI(k) == (k \div tileRepeat) - (tileRepeat \div 2)
SlotJ(k) == (k % tileRepeat) - (tileRepeat \div 2)

\* createTerrainGrid(): tileRepeat x tileRepeat clones around the origin
createTerrainGrid ==
    [k \in 1..(tileRepeat * tileRepeat) |->
        [x |-> SlotI(k - 1) * Spacing, z |-> SlotJ(k - 1) * Spacing]]

\* repositionTerrain() moving the tiles as one block, tile 4 onto the centre
RepositionRelative(tiles, p) ==
    LET centerX == RoundDiv(p.x, Spacing) * Spacing
        centerZ == RoundDiv(p.z, Spacing) * Spacing
    IN  [k \in 1..Len(tiles) |->
            [x |-> tiles[k].x + centerX - tiles[5].x,
             z |-> tiles[k].z + centerZ - tiles[5].z]]

\* repositionTerrain() with the two loop variables exchanged
RepositionSwapped(tiles, p) ==
    LET centerX == RoundDiv(p.x, Spacing) * Spacing
        centerZ == RoundDiv(p.z, Spacing) * Spacing
    IN  [k \in 1..Len(tiles) |->
            IF k <= 9
            THEN [x |-> centerX + SlotJ(k - 1) * Spacing,
                  z |-> centerZ + SlotI(k - 1) * Spacing]
            ELSE tiles[k]]

\* repositionTerrain(): the 3x3 window around the cell nearest the actor
repositionTerrain(tiles, p) ==
    LET centerX == RoundDiv(p.x, Spacing) * Spacing
        centerZ == RoundDiv(p.z, Spacing) * Spacing
    IN  [k \in 1..Len(tiles) |->
            IF k <= 9
            THEN [x |-> centerX + SlotI(k - 1) * Spacing,
                  z |-> centerZ + SlotJ(k - 1) * Spacing]
            ELSE tiles[k]]

\* the surface of the terrain asset at tile-local (lx, lz): the mesh is not
\* part of the sources, this relief stands for it.  Its period does not divide
\* the tile spacing, so two tiles that overlap differ in height there.
TileSurface(lx, lz) ==
    ((((lx + HalfTile) \div moveSpeed) + 3 * ((lz + HalfTile) \div moveSpeed)) % 4) * 25000

\* raycaster.intersectObject(tile, true) for a downward ray through (x, z)
TileHits(tiles, k, x, z) ==
    IF Abs(x - tiles[k].x) <= HalfTile /\ Abs(z - tiles[k].z) <= HalfTile
    THEN LET h == TileSurface(x - tiles[k].x, z - tiles[k].z)
         IN  <<[tile |-> k, y |-> h, distance |-> RayTop - h]>>
    ELSE <<>>

\* the hits of all tiles, in the order of terrainTiles
RECURSIVE AllHits(_, _, _, _)
AllHits(tiles, k, x, z) ==
    IF k > Len(tiles) THEN <<>>
    ELSE TileHits(tiles, k, x, z) \o AllHits(tiles, k + 1, x, z)

\* the first hit collected, unsorted
FirstHit(hits) == hits[1]

\* intersections.sort((a, b) => a.distance - b.distance)[0]: the first hit of
\* least distance (the sort is stable)
Closest(hits) ==
    hits[CHOOSE i \in 1..Len(hits) :
            /\ \A j \in 1..Len(hits) : hits[i].distance <= hits[j].distance
            /\ \A j \in 1..(i - 1) : hits[j].distance > hits[i].distance]

\* the ground height without the default: the height of the ray's origin
\* where nothing is hit
GroundYNoDefault(tiles, x, z) ==
    LET hits == AllHits(tiles, 1, x, z)
    IN  IF Len(hits) > 0 THEN Closest(hits).y ELSE RayTop

\* the ground height a moving tick of the tiled variant gives the actor
GroundY(tiles, x, z) ==
    LET hits == AllHits(tiles, 1, x, z)
    IN  IF Len(hits) > 0 THEN Closest(hits).y ELSE 0

\* camera.getWorldDirection() projected on the ground: the camera's position
\* is not tracked, every frame reads one of these headings
Headings == {[x |-> 0, z |-> -1], [x |-> 1, z |-> 0]}

\* direction of the tiled variant before normalize(): forward is the camera
\* heading, right = forward x up
CameraDirection(k, f) ==
    LET r == [x |-> -f.z, z |-> f.x]
        m(b) == IF b THEN 1 ELSE 0
    IN  [x |-> (m(k.w) - m(k.s)) * f.x + (m(k.d) - m(k.a)) * r.x,
         z |-> (m(k.w) - m(k.s)) * f.z + (m(k.d) - m(k.a)) * r.z]

\* an angle brought into -179..180
WrapDeg(a) == ((a + 179) % 360) - 179

\* model.quaternion.slerp(target, 0.2) for rotations about the vertical axis:
\* a fifth of the shorter way to the target
Slerp(r, target) == WrapDeg(r + (WrapDeg(target - r) * 2) \div 10)
----------------------------------------------------------------------------
(* updateRobotMovement.  s is the state it reads: [model, tiles, keys, cm,  *)
(* an, pos, rot, cam]; the result adds what the call did: ran (it passed    *)
(* its guard), moving (the direction was not zero) and calls (the number of *)
(* fadeToAction calls).                                                     *)

TickResult(s, ran, moving, loco, p, r, tiles) ==
    [cm |-> loco.cm, an |-> loco.an, pos |-> p, rot |-> r, tiles |-> tiles,
     ran |-> ran, moving |-> moving, calls |-> loco.calls]

Untouched(s) ==
    TickResult(s, FALSE, FALSE, [cm |-> s.cm, an |-> s.an, calls |-> 0],
               s.pos, s.rot, s.tiles)

\* src/unnamed/part_000
updateRobotMovementClosed(s) ==
    IF ~s.model THEN Untouched(s)
    ELSE LET dir    == MoveDirection(s.keys)
             moving == dir.x # 0 \/ dir.z # 0
             loco   == Locomotion(moving, s.keys, s.cm, s.an)
         IN  IF moving
             THEN LET n == Normalize(dir)
                  IN  TickResult(s, TRUE, TRUE, loco,
                                 NewPosClosed(s.pos, n, Speed(s.keys)),
                                 Atan2Deg(n), s.tiles)
             ELSE TickResult(s, TRUE, FALSE, loco, s.pos, s.rot, s.tiles)

\* src/main.js
updateRobotMovementTiled(s) ==
    IF ~s.model \/ Len(s.tiles) = 0 THEN Untouched(s)
    ELSE LET dir    == CameraDirection(s.keys, s.cam)
             moving == dir.x # 0 \/ dir.z # 0
             loco   == Locomotion(moving, s.keys, s.cm, s.an)
         IN  IF moving
             THEN LET n  == Normalize(dir)
                      nx == s.pos.x + Scaled(n.x, Speed(s.keys))
                      nz == s.pos.z + Scaled(n.z, Speed(s.keys))
                      np == [x |-> nx, y |-> GroundY(s.tiles, nx, nz), z |-> nz]
                  IN  TickResult(s, TRUE, TRUE, loco, np,
                                 Slerp(s.rot, Atan2Deg(n)),
                                 repositionTerrain(s.tiles, np))
             ELSE TickResult(s, TRUE, FALSE, loco, s.pos, s.rot, s.tiles)

updateRobotMovement(v, s) ==
    IF v = "tiled" THEN updateRobotMovementTiled(s) ELSE updateRobotMovementClosed(s)

----------------------------------------------------------------------------
(* mixer.update(dt) of one frame, with the 'finished' listener restoreState *)

\* mixer.addEventListener('finished', restoreState) on n registrations of
\* restoreState, without the dispatcher's test that it is registered already
addEventListenerAgain(n) == n + 1

\* mixer.addEventListener('finished', restoreState): EventDispatcher adds a
\* listener only if it is not registered yet
addEventListener(n) == IF n = 0 THEN 1 ELSE n

\* mixer.removeEventListener('finished', restoreState): one registration less
removeEventListener(n) == IF n > 0 THEN n - 1 ELSE 0

\* the registrations left after k calls of restoreState
RECURSIVE AfterRestores(_, _)
AfterRestores(n, k) ==
    IF k = 0 THEN n ELSE AfterRestores(removeEventListener(n), k - 1)

\* restoreState() fading to 'Idle' whatever currentMovement is
restoreStateIdle(an, cm) == FadeToAction(an, "Idle", FadeShort)

\* restoreState(): the listener takes itself off and fades to currentMovement
restoreState(an, cm) == FadeToAction(an, cm, FadeShort)

\* every action advanced by one frame, no listener called
Advance(as) == [c \in Clips |-> UpdateWeight(UpdateTime(c, as[c]))]

\* The outcomes of mixer.update.  The mixer updates its actions in the order
\* they were first played, which the model does not keep: when several actions
\* finish in the frame any of them may be the first (by), and the action that
\* restoreState restarts is updated in this frame (late) or was updated
\* before the event.  The first 'finished' event of the frame calls every
\* registration of restoreState, and each call takes one registration off.
MixerOutcomes(an, lis, cm) ==
    LET fin  == Finishing(an.acts)
        adv  == [an EXCEPT !.acts = Advance(an.acts)]
    IN  IF lis = 0 \/ fin = {}
        THEN {[an |-> adv, listener |-> lis, fin |-> fin, by |-> "none",
               restored |-> "none", restores |-> 0, calls |-> 0, noops |-> 0]}
        ELSE UNION {
               {LET res == restoreState(adv, cm)
                    upd == IF late
                           THEN [res EXCEPT !.acts[cm] = UpdateTime(cm, res.acts[cm])]
                           ELSE res
                IN  [an |-> upd, listener |-> AfterRestores(lis, lis), fin |-> fin,
                     by |-> f, restored |-> res.active, restores |-> lis,
                     calls |-> lis,
                     noops |-> (IF adv.active = cm THEN 1 ELSE 0) + (lis - 1)]
                : late \in {b \in BOOLEAN :
                              /\ b => /\ adv.active # cm
                                      /\ an.acts[cm].played
                                      /\ cm # f
                              /\ (cm \in fin /\ cm # f /\ adv.active # cm) => b}}
               : f \in fin}
----------------------------------------------------------------------------
(* State *)

\* what hist records of the handler that ran last: its name, the number of
\* fadeToAction calls it made and how many of them returned at once; for a
\* frame also the action whose 'finished' event called restoreState (by), the
\* action that was active right after restoreState (restored), the number of
\* restoreState calls (restores), the action
\* that was active before the frame if it finished in it (finActive), whether
\* updateRobotMovement passed its guard (ran) and moved the actor (moving),
\* and currentMovement before the frame (preCm)
Last(op, calls, noops) ==
    [op |-> op, calls |-> calls, noops |-> noops, by |-> "none",
     restored |-> "none", restores |-> 0, finActive |-> "none", ran |-> FALSE, moving |-> FALSE,
     preCm |-> "none"]

\* the animation state of the program
an == Anim(activeAction, previousAction, acts)

InitVariant(v) ==
    /\ variant = v
    /\ loads = [robot |-> "pending", terrain |-> IF v = "tiled" THEN "pending" ELSE "none"]
    /\ model = FALSE
    /\ terrainTiles = <<>>
    /\ spawnTimer = "none"
    /\ keys = NoKeys
    /\ apiState = "Walking"
    /\ currentMovement = "Idle"
    /\ activeAction = "none"
    /\ previousAction = "none"
    /\ acts = [c \in Clips |-> FreshAction]
    /\ listener = 0
    /\ pos = [x |-> 0, y |-> 0, z |-> 0]
    /\ rot = 0
    /\ camDir = [x |-> 0, z |-> -1]
    /\ hist = [last |-> Last("init", 0, 0), armedAt |-> "none", armedBy |-> "none",
               events |-> 0, steps |-> 0, start |-> [x |-> 0, z |-> 0]]

Init == \E v \in {"tiled", "closed"} : InitVariant(v)

----------------------------------------------------------------------------
(* Asset loading *)

\* createGUI(): the actions are created, 'Walking' is played
createGUI ==
    /\ acts' = [c \in Clips |->
                  IF c = "Walking" THEN [FreshAction EXCEPT !.played = TRUE]
                  ELSE FreshAction]
    /\ activeAction' = "Walking"

\* the robot's load callback
RobotLoaded ==
    /\ loads.robot = "pending"
    /\ loads' = [loads EXCEPT !.robot = "loaded"]
    /\ model' = TRUE
    /\ createGUI
    /\ spawnTimer' = IF variant = "tiled" THEN "pending" ELSE spawnTimer
    /\ hist' = [hist EXCEPT !.last = Last("loadRobot", 0, 0)]
    /\ UNCHANGED <<variant, terrainTiles, keys, apiState, currentMovement,
                   previousAction, listener, pos, rot, camDir>>

\* a load fails: console.error, nothing else
LoadError(asset) ==
    /\ loads[asset] = "pending"
    /\ loads' = [loads EXCEPT ![asset] = "failed"]
    /\ hist' = [hist EXCEPT !.last = Last("loadError", 0, 0)]
    /\ UNCHANGED <<variant, model, terrainTiles, spawnTimer, keys, apiState,
                   currentMovement, activeAction, previousAction, acts, listener,
                   pos, rot, camDir>>

\* tiled: the terrain's load callback
TerrainLoaded ==
    /\ loads.terrain = "pending"
    /\ loads' = [loads EXCEPT !.terrain = "loaded"]
    /\ terrainTiles' = terrainTiles \o createTerrainGrid
    /\ hist' = [hist EXCEPT !.last = Last("loadTerrain", 0, 0)]
    /\ UNCHANGED <<variant, model, spawnTimer, keys, apiState, currentMovement,
                   activeAction, previousAction, acts, listener, pos, rot, camDir>>

\* tiled: the setTimeout callback that places the robot on the ground
SpawnPlacement ==
    /\ spawnTimer = "pending"
    /\ spawnTimer' = "done"
    /\ LET hits == AllHits(terrainTiles, 1, 0, 0)
       IN  pos' = IF Len(hits) > 0
                  THEN [x |-> 0, y |-> hits[1].y, z |-> 0]
                  ELSE [x |-> 0, y |-> 0, z |-> 0]
    /\ hist' = [hist EXCEPT !.last = Last("spawn", 0, 0)]
    /\ UNCHANGED <<variant, loads, model, terrainTiles, keys, apiState,
                   currentMovement, activeAction, previousAction, acts, listener,
                   rot, camDir>>

----------------------------------------------------------------------------
(* Input *)

SetAnim(a) ==
    /\ activeAction' = a.active
    /\ previousAction' = a.previous
    /\ acts' = a.acts

\* hist after an input event
Event(op, calls, noops) ==
    [hist EXCEPT !.last = Last(op, calls, noops), !.events = @ + 1]

\* keys after onKeyDown
KeysDown(k) ==
    IF k \in {"w", "a", "s", "d", "shift"} THEN [keys EXCEPT ![k] = TRUE] ELSE keys

\* keys after onKeyUp
KeysUp(k) ==
    IF k \in {"w", "a", "s", "d", "shift"} THEN [keys EXCEPT ![k] = FALSE] ELSE keys

\* onKeyDown with the break of case 'shift' missing: it falls into case ' '
onKeyDownFallthrough(k) ==
    /\ keys' = KeysDown(k)
    /\ IF k \in {"shift", " "} /\ model
       THEN /\ SetAnim(FadeToAction(an, "Jump", FadeShort))
            /\ hist' = Event("keydown", 1, IF activeAction = "Jump" THEN 1 ELSE 0)
       ELSE /\ UNCHANGED <<activeAction, previousAction, acts>>
            /\ hist' = Event("keydown", 0, 0)
    /\ UNCHANGED <<variant, loads, model, terrainTiles, spawnTimer, apiState,
                   currentMovement, listener, pos, rot, camDir>>

\* onKeyDown with case ' ' calling fadeToAction without `if (model)`
onKeyDownNoGuard(k) ==
    /\ keys' = KeysDown(k)
    /\ IF k = " "
       THEN /\ SetAnim(FadeToAction(an, "Jump", FadeShort))
            /\ hist' = Event("keydown", 1, IF activeAction = "Jump" THEN 1 ELSE 0)
       ELSE /\ UNCHANGED <<activeAction, previousAction, acts>>
            /\ hist' = Event("keydown", 0, 0)
    /\ UNCHANGED <<variant, loads, model, terrainTiles, spawnTimer, apiState,
                   currentMovement, listener, pos, rot, camDir>>

onKeyDown(k) ==
    /\ keys' = KeysDown(k)
    /\ IF k = " " /\ model
       THEN /\ SetAnim(FadeToAction(an, "Jump", FadeShort))
            /\ hist' = Event("keydown", 1, IF activeAction = "Jump" THEN 1 ELSE 0)
       ELSE /\ UNCHANGED <<activeAction, previousAction, acts>>
            /\ hist' = Event("keydown", 0, 0)
    /\ UNCHANGED <<variant, loads, model, terrainTiles, spawnTimer, apiState,
                   currentMovement, listener, pos, rot, camDir>>

onKeyUp(k) ==
    /\ keys' = KeysUp(k)
    /\ hist' = Event("keyup", 0, 0)
    /\ UNCHANGED <<variant, loads, model, terrainTiles, spawnTimer, apiState,
                   currentMovement, activeAction, previousAction, acts, listener,
                   pos, rot, camDir>>

\* the panel's state selector changes to st: its onChange handler
PanelState(st) ==
    /\ model
    /\ st # apiState
    /\ apiState' = st
    /\ currentMovement' = st
    /\ SetAnim(FadeToAction(an, st, FadeLong))
    /\ hist' = Event("panel", 1, IF activeAction = st THEN 1 ELSE 0)
    /\ UNCHANGED <<variant, loads, model, terrainTiles, spawnTimer, keys,
                   listener, pos, rot, camDir>>

\* an emote button of the panel: api[name]()
EmoteButton(name) ==
    /\ model
    /\ SetAnim(FadeToAction(an, name, FadeShort))
    /\ listener' = addEventListener(listener)
    /\ hist' = [Event("emote", 1, IF activeAction = name THEN 1 ELSE 0)
                  EXCEPT !.armedAt = currentMovement, !.armedBy = name]
    /\ UNCHANGED <<variant, loads, model, terrainTiles, spawnTimer, keys,
                   apiState, currentMovement, pos, rot, camDir>>

----------------------------------------------------------------------------
(* animate(): one frame *)

Frame(maxSteps) ==
    \E mo \in (IF model THEN MixerOutcomes(an, listener, currentMovement)
               ELSE {[an |-> an, listener |-> listener, fin |-> {}, by |-> "none",
                      restored |-> "none", restores |-> 0, calls |-> 0,
                      noops |-> 0]}) :
      \E f \in (IF variant = "tiled" /\ model THEN Headings ELSE {camDir}) :
        \E t \in {updateRobotMovement(variant,
                    [model |-> model, tiles |-> terrainTiles, keys |-> keys,
                     cm |-> currentMovement, an |-> mo.an, pos |-> pos,
                     rot |-> rot, cam |-> f])} :
          /\ t.moving => hist.steps < maxSteps
          /\ SetAnim(t.an)
          /\ listener' = mo.listener
          /\ currentMovement' = t.cm
          /\ pos' = t.pos
          /\ rot' = t.rot
          /\ terrainTiles' = t.tiles
          /\ camDir' = IF t.moving THEN f ELSE camDir
          /\ hist' = [hist EXCEPT
                        !.last = [op |-> "frame",
                                  calls |-> mo.calls + t.calls,
                                  noops |-> mo.noops +
                                            (IF t.calls = 1 /\ t.an = mo.an THEN 1 ELSE 0),
                                  by |-> mo.by, restored |-> mo.restored,
                                  restores |-> mo.restores,
                                  finActive |-> IF activeAction \in mo.fin
                                                THEN activeAction ELSE "none",
                                  ran |-> t.ran, moving |-> t.moving,
                                  preCm |-> currentMovement],
                        !.steps = IF t.moving THEN @ + 1 ELSE @]
          /\ UNCHANGED <<variant, loads, model, spawnTimer, keys, apiState>>

----------------------------------------------------------------------------
(* The program *)

\* every handler, the inputs drawn from the given sets, at most maxEvents
\* input events and maxSteps moving frames
NextWith(keyIds, stateNames, emoteNames, maxEvents, maxSteps) ==
    \/ RobotLoaded
    \/ \E asset \in {"robot", "terrain"} : LoadError(asset)
    \/ TerrainLoaded
    \/ SpawnPlacement
    \/ /\ hist.events < maxEvents
       /\ \/ \E k \in keyIds : onKeyDown(k)
          \/ \E k \in keyIds : (k \in DOMAIN keys => keys[k]) /\ onKeyUp(k)
          \/ \E st \in stateNames : PanelState(st)
          \/ \E name \in emoteNames : EmoteButton(name)
    \/ Frame(maxSteps)

Next == NextWith(KeyIds, StateNames, EmoteNames, MaxEvents, MaxSteps)

Spec == Init /\ [][Next]_vars

----------------------------------------------------------------------------
(* Holding keys: the two programs with the keys pressed after loading and   *)
(* before the actor starts to move, and held from then on                   *)

\* frames of a walk with the keys held, closed-form variant
HoldTicks == 60
\* frames of a walk with the keys held, tiled variant
HoldTiled == 2
\* keys pressed before the walk
HoldKeys == 3

NextHold ==
    \/ RobotLoaded
    \/ TerrainLoaded
    \/ SpawnPlacement
    \/ /\ hist.steps = 0
       /\ hist.events < HoldKeys
       /\ variant = "tiled" => spawnTimer = "done"
       /\ \E k \in KeyIds \ {" ", "x"} : onKeyDown(k)
    \/ Frame(IF variant = "closed" THEN HoldTicks ELSE HoldTiled)

SpecHold == Init /\ [][NextHold]_vars

----------------------------------------------------------------------------
(* Far from the origin: the tiled program after the actor has walked 494    *)
(* frames along the camera heading -z, released the key and stood for two   *)
(* frames; the next step along -z brings it to the edge of the centre cell  *)

FarZ == -(494 * moveSpeed)

InitFarWith(timer) ==
    /\ variant = "tiled"
    /\ loads = [robot |-> "loaded", terrain |-> "loaded"]
    /\ model = TRUE
    /\ terrainTiles = repositionTerrain(createTerrainGrid, [x |-> 0, z |-> FarZ])
    /\ spawnTimer = timer
    /\ keys = NoKeys
    /\ apiState = "Walking"
    /\ currentMovement = "Idle"
    /\ activeAction = "Idle"
    /\ previousAction = "Walking"
    /\ acts = [c \in Clips |->
                 IF c = "Idle" THEN [FreshAction EXCEPT !.played = TRUE]
                 ELSE IF c = "Walking"
                      THEN [FreshAction EXCEPT !.played = TRUE, !.enabled = FALSE]
                      ELSE FreshAction]
    /\ listener = 0
    /\ pos = [x |-> 0, y |-> GroundY(createTerrainGrid, 0, FarZ), z |-> FarZ]
    /\ rot = 176
    /\ camDir = [x |-> 0, z |-> -1]
    /\ hist = [last |-> [Last("frame", 0, 0) EXCEPT !.ran = TRUE, !.preCm = "Idle"],
               armedAt |-> "none", armedBy |-> "none",
               events |-> 0, steps |-> 0, start |-> [x |-> 0, z |-> FarZ]]

InitFar == InitFarWith("done")

\* the inputs of the walk across the window's edge: forward, back, right and
\* shift, one panel state and one emote
NextFar == NextWith({"w", "s", "d", "shift"}, {"Death"}, {"Jump"}, MaxEvents, MaxSteps)

SpecFar == (InitVariant("tiled") \/ InitFar) /\ [][NextFar]_vars

\* The same walk made before the spawn timer has fired: setTimeout gives the
\* callback a least delay of 500 ms and no bound on the frames before it
InitFarEarly == InitFarWith("pending")

SpecRace == (InitVariant("tiled") \/ InitFarEarly) /\ [][NextFar]_vars

----------------------------------------------------------------------------
(* Properties *)

\* the held direction keys do not cancel
KeysMove(k) == k.w # k.s \/ k.a # k.d

\* the locomotion state the held keys stand for
KeysState(k) ==
    IF KeysMove(k) THEN (IF k.shift THEN "Running" ELSE "Walking") ELSE "Idle"

LastFrame == hist.last.op = "frame"

\* the animation state after the step
anNext == Anim(activeAction', previousAction', acts')

\* C1: when an overlay (emote) that is still the active action plays to its
\* end, the frame of its 'finished' event leaves actions[currentMovement]
\* active, however the overlay was started
C1_OverlayEndRestores ==
    (LastFrame /\ hist.last.finActive \in EmoteNames)
        => activeAction = currentMovement

\* C2 as claimed: when the 'finished' event of the overlay that an emote
\* button started calls restoreState, the action active right after
\* restoreState is the one of the currentMovement recorded at the trigger
C2_RestoresTriggerState ==
    (LastFrame /\ hist.last.by # "none" /\ hist.last.by = hist.armedBy)
        => hist.last.restored = hist.armedAt

\* C2: whenever restoreState runs, the action active right after it is the
\* one of the currentMovement of that moment (the state at completion time)
C2_RestoresLatestState ==
    (LastFrame /\ hist.last.by # "none") => hist.last.restored = hist.last.preCm

\* restoreState ran for the overlay of the last button, after currentMovement
\* had changed since the button
C2_Witness ==
    /\ LastFrame
    /\ hist.last.by # "none"
    /\ hist.last.by = hist.armedBy
    /\ hist.last.restored # hist.armedAt

\* C3: fadeToAction(name, duration) with actions[name] already active leaves
\* activeAction, previousAction and every action as they are
C3_NoOpTransition ==
    model => \A d \in {FadeShort, FadeLong} : FadeToAction(an, activeAction, d) = an

\* a handler has just called fadeToAction with the active action's name
C3_Witness == model /\ hist.last.calls > 0 /\ hist.last.noops = hist.last.calls

\* C4: after every frame whose updateRobotMovement passed its guard,
\* currentMovement is the state the held keys stand for
C4_MovementFromKeys ==
    (LastFrame /\ hist.last.ran) => currentMovement = KeysState(keys)

\* a frame replaced a state that the panel had set
C4_Witness ==
    /\ LastFrame
    /\ hist.last.ran
    /\ hist.last.preCm = "Death"
    /\ currentMovement = "Walking"

\* C5: a frame with exactly w and s held moves and turns nothing, sets
\* currentMovement to 'Idle', does not normalise, and ends as the same frame
\* with no direction key held would
C5_OpposingKeysCancel ==
    [][(/\ hist'.last.op = "frame"
        /\ hist'.last.ran
        /\ keys.w /\ keys.s /\ ~keys.a /\ ~keys.d)
       => /\ pos' = pos
          /\ rot' = rot
          /\ currentMovement' = "Idle"
          /\ ~hist'.last.moving
          /\ \E mo \in MixerOutcomes(an, listener, currentMovement) :
               LET t0 == updateRobotMovement(variant,
                            [model |-> model, tiles |-> terrainTiles,
                             keys |-> [keys EXCEPT !.w = FALSE, !.s = FALSE],
                             cm |-> currentMovement, an |-> mo.an, pos |-> pos,
                             rot |-> rot, cam |-> camDir])
               IN  /\ t0.pos = pos'
                   /\ t0.rot = rot'
                   /\ t0.cm = currentMovement'
                   /\ t0.an = anNext
                   /\ t0.tiles = terrainTiles'
                   /\ mo.listener = listener']_vars

\* a frame with w and s held stopped a walk
C5_Witness ==
    /\ LastFrame
    /\ hist.last.ran
    /\ keys.w /\ keys.s /\ ~keys.a /\ ~keys.d
    /\ hist.last.preCm = "Walking"
    /\ hist.steps > 0

C7_TerrainLocked ==
    (variant = "closed" /\ model) => pos.y = getTerrainHeight(pos.x, pos.z)

\* the actor has moved onto ground that is not level with the origin
C7_Witness ==
    variant = "closed" /\ model /\ hist.steps > 0 /\ pos.y # 0

\* only forward is held
OnlyForward == keys = [NoKeys EXCEPT !.w = TRUE]

\* C8 as claimed: closed-form variant, from (0, 0), forward alone held for
\* HoldTicks (60) frames: x = 0, z = -(0.1 * 60 * dt) = -0.1, 'Walking'
C8_ForwardOneSecondDt ==
    (variant = "closed" /\ hist.steps = HoldTicks /\ OnlyForward)
        => /\ pos.x = 0
           /\ pos.z = -((moveSpeed * HoldTicks) \div 60)
           /\ currentMovement = "Walking"

\* C8: closed-form variant, from (0, 0), forward alone held for HoldTicks (60)
\* frames: x = 0, z = -(60 * moveSpeed) = -6.0, 'Walking'; each frame moves
\* the actor by moveSpeed whatever dt is
C8_ForwardPerFrame ==
    (variant = "closed" /\ hist.steps = HoldTicks /\ OnlyForward)
        => /\ pos.x = 0
           /\ pos.z = -(HoldTicks * moveSpeed)
           /\ currentMovement = "Walking"

\* forward alone has been held for HoldTicks frames
C8_Witness ==
    variant = "closed" /\ hist.steps = HoldTicks /\ OnlyForward /\ pos.z < 0

\* the displacement of one frame with the keys k, without shift, along the
\* camera heading f (tiled) or the world axes (closed)
WalkStep(v, k, f) ==
    LET n == Normalize(IF v = "tiled" THEN CameraDirection(k, f) ELSE MoveDirection(k))
    IN  [x |-> Scaled(n.x, moveSpeed), z |-> Scaled(n.z, moveSpeed)]

C9_ClosedDoubles ==
    (variant = "closed" /\ model /\ hist.steps > 0 /\ keys.shift /\ KeysMove(keys))
        => /\ currentMovement = "Running"
           /\ pos.x - hist.start.x = 2 * hist.steps * WalkStep(variant, keys, camDir).x
           /\ pos.z - hist.start.z = 2 * hist.steps * WalkStep(variant, keys, camDir).z

\* C9, both variants: every moving frame with shift held displaces the actor
\* by twice the walking step of the same keys from the same state, and leaves
\* currentMovement = 'Running'
C9_StepDoubles ==
    (hist'.last.op = "frame" /\ hist'.last.moving /\ keys.shift)
        => /\ pos'.x - pos.x = 2 * WalkStep(variant, keys, camDir').x
           /\ pos'.z - pos.z = 2 * WalkStep(variant, keys, camDir').z
           /\ currentMovement' = "Running"

C10_TileWindow ==
    (variant = "tiled" /\ Len(terrainTiles) > 0)
        => /\ Len(terrainTiles) = tileRepeat * tileRepeat
           /\ LET cx == terrainTiles[5].x
                  cz == terrainTiles[5].z
              IN  /\ cx % Spacing = 0
                  /\ cz % Spacing = 0
                  /\ \A k \in 1..Len(terrainTiles) :
                       terrainTiles[k] =
                         [x |-> cx + (((k - 1) \div 3) - 1) * Spacing,
                          z |-> cz + (((k - 1) % 3) - 1) * Spacing]
           /\ Cardinality(Range(terrainTiles)) = Len(terrainTiles)

\* the window has been moved to the next cell
C10_Witness ==
    /\ variant = "tiled"
    /\ Len(terrainTiles) > 0
    /\ terrainTiles[5].z = -Spacing
    /\ hist.steps > 0

\* tile layouts repositionTerrain may find: the current one, the grid as
\* created, the grid in reverse order, the grid moved off the window, and all
\* tiles stacked on one place
Layouts ==
    {terrainTiles,
     createTerrainGrid,
     [k \in 1..Len(createTerrainGrid) |->
        createTerrainGrid[Len(createTerrainGrid) + 1 - k]],
     [k \in 1..Len(createTerrainGrid) |->
        [x |-> createTerrainGrid[k].x + 3 * Spacing + 7,
         z |-> createTerrainGrid[k].z - 2 * Spacing]],
     [k \in 1..Len(createTerrainGrid) |-> [x |-> 12345, z |-> -Spacing]]}

\* actor positions around the current one, on both sides of a cell edge
Positions ==
    {[x |-> pos.x + dx, z |-> pos.z + dz] :
        dx \in {0, Spacing \div 2, -Spacing}, dz \in {0, -(Spacing \div 2) - 1}}

\* C11: repositionTerrain called twice with the same actor position gives
\* what the first call gave, and what it gives depends on the actor position
\* alone, not on where the tiles were
C11_RepositionIdempotent ==
    (variant = "tiled" /\ Len(terrainTiles) > 0)
        => \A p \in Positions : \A t \in Layouts :
             /\ repositionTerrain(repositionTerrain(t, p), p) = repositionTerrain(t, p)
             /\ repositionTerrain(t, p) = repositionTerrain(createTerrainGrid, p)

\* a moving frame has called repositionTerrain and left the tiles off the
\* places they were created at
C11_Witness ==
    /\ variant = "tiled"
    /\ hist.last.op = "frame"
    /\ hist.last.moving
    /\ terrainTiles # createTerrainGrid
    /\ terrainTiles = repositionTerrain(terrainTiles, pos)

\* the movement tick of the tiled variant from the current state, with the
\* tiles at layout t and the camera heading f
TickOver(t, f) ==
    updateRobotMovementTiled(
        [model |-> model, tiles |-> t, keys |-> keys, cm |-> currentMovement,
         an |-> an, pos |-> pos, rot |-> rot, cam |-> f])

\* C12: tiled variant: a spawn placement whose ray hits no tile leaves the
\* actor at (0, 0, 0), and a movement tick whose ray hits no tile gives the
\* actor the height 0, wherever the tiles are
C12_NoHitDefault ==
    (variant = "tiled" /\ model)
        => /\ (hist.last.op = "spawn" /\ AllHits(terrainTiles, 1, 0, 0) = <<>>)
                => pos = [x |-> 0, y |-> 0, z |-> 0]
           /\ \A t \in Layouts : \A f \in Headings :
                LET r == TickOver(t, f)
                IN  (r.moving /\ AllHits(t, 1, r.pos.x, r.pos.z) = <<>>)
                        => r.pos.y = 0

\* the spawn timer fired before the grid existed, and with the keys held now a
\* tick over a grid that lies elsewhere would hit nothing
C12_Witness ==
    /\ variant = "tiled"
    /\ hist.last.op = "spawn"
    /\ terrainTiles = <<>>
    /\ pos.y = 0
    /\ \E t \in Layouts : \E f \in Headings :
         TickOver(t, f).moving
           /\ AllHits(t, 1, TickOver(t, f).pos.x, TickOver(t, f).pos.z) = <<>>

\* C13, the steps: a frame whose 'finished' event called restoreState called
\* it once and leaves no listener registered, and only an emote button
\* registers a listener
C13_ReturnStep ==
    /\ (hist'.last.op = "frame" /\ hist'.last.by # "none")
          => hist'.last.restores = 1 /\ listener' = 0
    /\ listener' > listener => hist'.last.op = "emote"

\* C13: restoreState is registered at most once at any time, a 'finished'
\* event calls it at most once, and once it has run it stays unregistered
\* until the next emote button
C13_OneReturnPath == [](listener <= 1) /\ [][C13_ReturnStep]_vars

\* the 'Wave' button pressed again while 'Wave', started by that button, is
\* still active: two triggers in a row, one registration
C13_Witness ==
    /\ hist.last.op = "emote"
    /\ hist.armedBy = "Wave"
    /\ hist.last.noops = 1
    /\ activeAction = "Wave"
    /\ listener = 1

\* C14: whenever restoreState runs, the action whose 'finished' event called
\* it is the overlay of the emote button that registered it, and restoreState
\* is not registered while another action than that overlay is active
C14_ConsumedByArmingOverlay ==
    /\ (LastFrame /\ hist.last.by # "none") => hist.last.by = hist.armedBy
    /\ listener > 0 => activeAction = hist.armedBy

\* C15: once the robot is loaded, whenever the active action is not an emote
\* it is the action named by currentMovement
C15_ActiveIsCurrentMovement ==
    (model /\ activeAction \notin Range(emotes)) => activeAction = currentMovement

\* the actions other than the active one whose fade-out is in progress
FadingOut ==
    {c \in Clips \ {activeAction} :
        acts[c].played /\ acts[c].enabled /\ acts[c].fade = "out"}

\* C16: once the robot is loaded there is one active action, and at most one
\* other action is fading out
C16_OneFadingOut ==
    model => activeAction \in Clips /\ Cardinality(FadingOut) <= 1

\* the fadeToAction calls that updateRobotMovement made in the last frame:
\* all calls of the frame but those of restoreState
TickCalls(h) == h.last.calls - h.last.restores

\* C17, after a tick: the tick made a fadeToAction call exactly if it changed
\* currentMovement, and none if currentMovement was already the state the
\* held keys stand for
C17_CallOnChange ==
    (LastFrame /\ hist.last.ran)
        => /\ TickCalls(hist) = IF currentMovement # hist.last.preCm THEN 1 ELSE 0
           /\ hist.last.preCm = KeysState(keys) => TickCalls(hist) = 0

\* C17, two ticks in a row: the second of two frames with no key event
\* between them makes no fadeToAction call
C17_SecondTickQuiet ==
    (LastFrame /\ hist.last.ran /\ hist'.last.op = "frame")
        => TickCalls(hist') = 0

\* C17: a tick calls fadeToAction only when it changes currentMovement, so the
\* second of two consecutive ticks with the same keys held calls nothing
C17_TransitionOnChangeOnly == [](C17_CallOnChange) /\ [][C17_SecondTickQuiet]_vars

\* the second moving tick in a row with the same keys made no call
C17_Witness ==
    /\ LastFrame
    /\ hist.last.moving
    /\ hist.steps = 2
    /\ hist.last.calls = 0
    /\ hist.last.preCm = currentMovement
    /\ currentMovement = "Running"

\* C18: tiled variant, robot and grid loaded: tile 4 (0-based) is on the
\* grid cell nearest the actor
C18_WindowCentredOnActor ==
    (variant = "tiled" /\ model /\ Len(terrainTiles) > 0)
        => terrainTiles[5] = [x |-> RoundDiv(pos.x, Spacing) * Spacing,
                              z |-> RoundDiv(pos.z, Spacing) * Spacing]

\* C19, the states: nothing of the robot is used before the robot exists (no
\* action played or active, no listener, no timer, the actor where it was
\* created), no tile is moved before the grid exists, and every fadeToAction
\* call that made a transition found an active action to fade out
C19_CreatedBeforeUse ==
    /\ ~model => /\ activeAction = "none" /\ previousAction = "none"
                 /\ \A c \in Clips : acts[c] = FreshAction
                 /\ listener = 0
                 /\ spawnTimer = "none"
                 /\ pos = [x |-> 0, y |-> 0, z |-> 0] /\ rot = 0
                 /\ currentMovement = "Idle"
                 /\ hist.last.calls = 0
    /\ model => activeAction \in Clips
    /\ hist.last.calls > hist.last.noops => previousAction \in Clips
    /\ (variant = "tiled" /\ loads.terrain # "loaded") => terrainTiles = <<>>
    /\ (variant = "tiled" /\ terrainTiles = <<>>) => hist.steps = 0

\* C19, the steps: a frame whose updateRobotMovement returns at its guard
\* leaves position, orientation, currentMovement and the tiles as they are and
\* calls no fadeToAction from the tick; the active action changes in such a
\* frame only if mixer.update called restoreState, and not at all before the
\* robot is loaded
C19_GuardedTick ==
    (hist'.last.op = "frame" /\ ~hist'.last.ran)
        => /\ ~model \/ (variant = "tiled" /\ terrainTiles = <<>>)
           /\ UNCHANGED <<pos, rot, currentMovement, terrainTiles, keys>>
           /\ TickCalls(hist') = 0
           /\ hist'.last.by = "none" => activeAction' = activeAction
           /\ ~model => UNCHANGED <<activeAction, previousAction, acts, listener>>

\* C19: for every order of load callbacks, load failures, key events, timer
\* and frames, a tick before the robot (tiled: or the grid) exists changes
\* nothing, and nothing is used before it has been created
C19_GuardsBeforeLoad == [](C19_CreatedBeforeUse) /\ [][C19_GuardedTick]_vars

\* tiled: the robot is loaded and its timer has fired, the terrain has failed
\* to load, and a frame has run with forward held
C19_Witness ==
    /\ variant = "tiled"
    /\ model
    /\ loads.terrain = "failed"
    /\ spawnTimer = "done"
    /\ keys.w
    /\ LastFrame
    /\ ~hist.last.ran

\* the tiles of layout t in other orders: reversed, and rotated by 1 and by 4
Reorders(t) ==
    {[k \in 1..Len(t) |-> t[Len(t) + 1 - k]],
     [k \in 1..Len(t) |-> t[((k - 1 + 1) % Len(t)) + 1]],
     [k \in 1..Len(t) |-> t[((k - 1 + 4) % Len(t)) + 1]]}

\* tile k of layout t lies under (x, z)
Covers(t, k, x, z) ==
    Abs(x - t[k].x) <= HalfTile /\ Abs(z - t[k].z) <= HalfTile

\* C20: tiled variant: the height a movement tick gives the actor is that of
\* the hit nearest to the ray's origin among the hits of all tiles (no tile
\* under the actor has a higher surface there, and one has this height), and
\* it is the same for every order of the tiles
C20_ClosestOfAllTiles ==
    (variant = "tiled" /\ model /\ Len(terrainTiles) > 0)
        => \A f \in Headings :
             LET r == TickOver(terrainTiles, f)
                 under == {k \in 1..Len(terrainTiles) :
                             Covers(terrainTiles, k, r.pos.x, r.pos.z)}
             IN  r.moving
                   => /\ \A k \in under :
                           TileSurface(r.pos.x - terrainTiles[k].x,
                                       r.pos.z - terrainTiles[k].z) <= r.pos.y
                      /\ under # {}
                           => \E k \in under :
                                TileSurface(r.pos.x - terrainTiles[k].x,
                                            r.pos.z - terrainTiles[k].z) = r.pos.y
                      /\ \A o \in Reorders(terrainTiles) :
                           TickOver(o, f).pos.y = r.pos.y

\* a tick has put the actor where two tiles overlap at different heights, on
\* the higher one, which is not the first of the two in terrainTiles
C20_Witness ==
    /\ variant = "tiled"
    /\ LastFrame
    /\ hist.last.moving
    /\ LET hits == AllHits(terrainTiles, 1, pos.x, pos.z)
       IN  /\ Len(hits) >= 2
           /\ hits[1].y < pos.y
           /\ \E i \in 1..Len(hits) : hits[i].y = pos.y
           /\ terrainTiles = repositionTerrain(createTerrainGrid, [x |-> 0, z |-> FarZ])
====
